---- MODULE Spec2Model ----
(***************************************************************************)
(* Derived-state recomputation and financial projection of DebtTracker.    *)
(*                                                                         *)
(* The SQLite database is the state: one function per table, from primary  *)
(* key to row.  Money is counted in cents, so the literal 0.01 of the      *)
(* source is the integer 1.  Two implementations of the recomputation pass *)
(* work on the same database: the GUI's                                    *)
(* update_account_balances_and_debt_amounts and db_manager's               *)
(* update_debt_amounts_and_payments / update_account_balances /            *)
(* update_goal_progress.                                                   *)
(***************************************************************************)
EXTENDS Integers, Sequences, FiniteSets, TLC

VARIABLES Debts, Accounts, Payments, Revenue, Goals, GoalLinks,
          seq, today, projections, order, lastOp, reps, pass, cache, sim, orch, xl

vars == <<Debts, Accounts, Payments, Revenue, Goals, GoalLinks,
          seq, today, projections, order, lastOp, reps, pass, cache, sim, orch, xl>>

db == <<Debts, Accounts, Payments, Revenue, Goals, GoalLinks, seq>>

-----------------------------------------------------------------------------
(* Bounds of the model *)

(* Rows ever inserted, over all tables *)
MaxRows == 3
(* Largest CurrentAmount a goal is stepped up to by hand *)
MaxGoalAmount == 2
(* Debts in a database handed to the projection *)
MaxProjDebts == 2

(* Values a form or a caller supplies, in cents *)
OriginalAmounts == {1, 3}
PaymentAmounts == {1, 2}
RevenueAmounts == {2}
StartingBalances == {0, 5}
Percentages == {50, 100}
MinimumPayments == {1}
GoalChanges == {-1, 2}

-----------------------------------------------------------------------------
(* Generic helpers *)

Max(a, b) == IF a >= b THEN a ELSE b

Min(a, b) == IF a <= b THEN a ELSE b

(* SUM(col) over the rows of table T selected by the keys in S *)
RECURSIVE SumAmount(_, _)
SumAmount(T, S) ==
    IF S = {} THEN 0
    ELSE LET k == CHOOSE x \in S : TRUE
         IN T[k].Amount + SumAmount(T, S \ {k})

RECURSIVE SumBalance(_, _)
SumBalance(T, S) ==
    IF S = {} THEN 0
    ELSE LET k == CHOOSE x \in S : TRUE
         IN T[k].Balance + SumBalance(T, S \ {k})

(* Revenue.Amount x AllocationPercentage, summed (in cents x percent) *)
RECURSIVE SumWeighted(_, _)
SumWeighted(T, S) ==
    IF S = {} THEN 0
    ELSE LET k == CHOOSE x \in S : TRUE
         IN T[k].Amount * T[k].AllocationPercentage + SumWeighted(T, S \ {k})

(* INSERT of a row under an AUTOINCREMENT key *)
RECURSIVE SumMinimum(_, _)
SumMinimum(T, S) ==
    IF S = {} THEN 0
    ELSE LET k == CHOOSE x \in S : TRUE
         IN T[k].MinimumPayment + SumMinimum(T, S \ {k})

Insert(T, id, row) == [k \in DOMAIN T \cup {id} |-> IF k = id THEN row ELSE T[k]]

(* DELETE FROM T WHERE key = id *)
Delete(T, id) == [k \in DOMAIN T \ {id} |-> T[k]]

(* Stored date strings: 'YYYY-MM-DD' or 'YYYY-MM-DD HH:MM:SS'.  The SQL   *)
(* comparison PaymentDate <= 'YYYY-MM-DD' is a string comparison, so a     *)
(* stamp with a time part on the same day compares greater.               *)
DateLE(d, day) == d.day < day \/ (d.day = day /\ ~d.time)

-----------------------------------------------------------------------------
(* GUI: update_account_balances_and_debt_amounts *)

(* payments_df.groupby('DebtID')['Amount'].sum() merged on DebtID *)
GuiTotalPaid(P, d) == SumAmount(P, {p \in DOMAIN P : P[p].DebtID = d})

GuiDebtStatus(amount, status) ==
    IF amount <= 1 THEN "Paid Off"
    ELSE IF status = "Paid" THEN "Paid" ELSE "Open"

(* Variant: the remaining amount taken from the stored Amount *)
GuiDebtRowFromStored(D, P, d) ==
    LET paid == GuiTotalPaid(P, d)
        amount == Max(0, D[d].Amount - paid)
    IN [D[d] EXCEPT !.AmountPaid = paid,
                    !.Amount = amount,
                    !.Status = GuiDebtStatus(amount, D[d].Status)]

GuiDebtRow(D, P, d) ==
    LET paid == GuiTotalPaid(P, d)
        amount == Max(0, D[d].OriginalAmount - paid)
    IN [D[d] EXCEPT !.AmountPaid = paid,
                    !.Amount = amount,
                    !.Status = GuiDebtStatus(amount, D[d].Status)]

GuiRecalcDebts(D, P) == [d \in DOMAIN D |-> GuiDebtRow(D, P, d)]

GuiDeposits(R, a) ==
    SumAmount(R, {r \in DOMAIN R : R[r].AllocatedTo = a /\ R[r].AllocationType = "Account"})

GuiWithdrawals(P, a) == SumAmount(P, {p \in DOMAIN P : P[p].AccountID = a})

(* Variant: a running balance, built on the stored Balance *)
GuiAccountRowRunning(A, P, R, a) ==
    [A[a] EXCEPT !.PreviousBalance = A[a].Balance,
                 !.Balance = A[a].Balance + GuiDeposits(R, a) - GuiWithdrawals(P, a)]

GuiAccountRow(A, P, R, a) ==
    [A[a] EXCEPT !.PreviousBalance = A[a].Balance,
                 !.Balance = A[a].StartingBalance + GuiDeposits(R, a) - GuiWithdrawals(P, a)]

GuiRecalcAccounts(A, P, R) == [a \in DOMAIN A |-> GuiAccountRow(A, P, R, a)]

-----------------------------------------------------------------------------
(* db_manager: update_debt_amounts_and_payments, update_account_balances,  *)
(* update_goal_progress                                                    *)

DbAmountPaid(P, d) == SumAmount(P, {p \in DOMAIN P : P[p].DebtID = d})

DbDebtRow(D, P, d) ==
    LET paid == DbAmountPaid(P, d)
    IN [D[d] EXCEPT !.AmountPaid = paid,
                    !.Amount = D[d].OriginalAmount - paid]

DbRecalcDebts(D, P) == [d \in DOMAIN D |-> DbDebtRow(D, P, d)]

DbDeposits(R, a) ==
    SumAmount(R, {r \in DOMAIN R : R[r].AllocatedTo = a /\ R[r].AllocationType = "Account"})

DbWithdrawals(P, a) == SumAmount(P, {p \in DOMAIN P : P[p].DebtID = a})

DbAccountRow(A, P, R, a) ==
    [A[a] EXCEPT !.Balance = DbDeposits(R, a) - DbWithdrawals(P, a)]

DbRecalcAccounts(A, P, R) == [a \in DOMAIN A |-> DbAccountRow(A, P, R, a)]

DbGoalProgress(P, day) ==
    SumAmount(P, {p \in DOMAIN P :
                    P[p].Category = "Debt Payment" /\ DateLE(P[p].PaymentDate, day)})

DbGoalStatus(progress, target) ==
    IF progress >= target THEN "Completed"
    ELSE IF progress = 0 THEN "Planned" ELSE "In Progress"

DbGoalRow(G, P, day, g) ==
    LET progress == DbGoalProgress(P, day)
    IN [G[g] EXCEPT !.CurrentAmount = progress,
                    !.Status = DbGoalStatus(progress, G[g].TargetAmount)]

DbRecalcGoals(G, P, day) == [g \in DOMAIN G |-> DbGoalRow(G, P, day, g)]

-----------------------------------------------------------------------------
(* State after database initialisation: every table empty *)

Empty == [k \in {} |-> 0]

(* The orchestrator before its first step, every script in place *)
Scripts == <<"debt_manager_db_init.py", "debt_manager_excel_template.py",
             "debt_manager_excel_sync.py", "debt_manager_gui.py">>

NoOrch == [pc |-> 1, running |-> FALSE, failed |-> FALSE, exists |-> [k \in 1..Len(Scripts) |-> TRUE],
           started |-> <<>>, exits |-> <<>>, stderr |-> <<>>]

(* No synchronisation with the workbook under way; the workbook not yet    *)
(* looked at                                                                *)
NoBook == [Debts |-> Empty, Accounts |-> Empty, Payments |-> Empty,
           Goals |-> Empty, Revenue |-> Empty]

NoSync == [pc |-> "idle", direction |-> "none", gui |-> FALSE,
           open |-> FALSE, exists |-> TRUE, probe |-> "none",
           book |-> NoBook, sqlite |-> NoBook, excel |-> NoBook, k |-> 0,
           result |-> "none", before |-> <<NoBook, NoBook>>]

(* No projection under way *)
NoSim == [pc |-> "idle", month |-> 0, debt |-> 0, savings |-> 0, debtRate |-> 0,
          savingsRate |-> 0, available |-> 0, k |-> 0, i |-> 0, out |-> <<>>]

(* No recomputation pass under way: nothing read, nothing to write *)
Idle == [pc |-> "idle", D |-> Empty, P |-> Empty, A |-> Empty, R |-> Empty]

Init ==
    /\ Debts = Empty
    /\ Accounts = Empty
    /\ Payments = Empty
    /\ Revenue = Empty
    /\ Goals = Empty
    /\ GoalLinks = Empty
    /\ seq = [Debts |-> 0, Accounts |-> 0, Payments |-> 0, Revenue |-> 0, Goals |-> 0]
    /\ today = 1
    /\ projections = <<>>
    /\ order = <<>>
    /\ pass = Idle
    /\ cache = Empty
    /\ sim = NoSim
    /\ orch = NoOrch
    /\ xl = NoSync
    /\ lastOp = "init"
    /\ reps = 0

-----------------------------------------------------------------------------
(* Rows as the forms and callers build them *)

DebtStatuses == {"Open", "Paid", "Paid Off", "Closed", "Defaulted"}

NewDebt(orig, mp, rate, st) ==
    [OriginalAmount |-> orig, Amount |-> orig, AmountPaid |-> 0,
     MinimumPayment |-> mp, InterestRate |-> rate, Status |-> st]

NewAccount(start, type, st) ==
    [StartingBalance |-> start, Balance |-> start, PreviousBalance |-> start,
     AccountType |-> type, Status |-> st]

NewPayment(d, a, amt, date, cat) ==
    [DebtID |-> d, AccountID |-> a, Amount |-> amt, PaymentDate |-> date, Category |-> cat]

NewRevenue(amt, to, pct, type, day) ==
    [Amount |-> amt, AllocatedTo |-> to, AllocationPercentage |-> pct,
     AllocationType |-> type, NextProjectedIncome |-> 0, DateReceived |-> day]

NewGoal(target, current) ==
    [TargetAmount |-> target, CurrentAmount |-> current, Status |-> "Planned"]

(* get_debt_account_options / get_account_options: "0 - None", then every   *)
(* DebtID and every AccountID, each stored as the bare number               *)
DebtAccountOptions == {0} \cup DOMAIN Debts \cup DOMAIN Accounts

AccountOptions == {0} \cup DOMAIN Accounts

(* The date field of a form is stored as 'YYYY-MM-DD 00:00:00' *)
FormDate(day) == [day |-> day, time |-> TRUE]

PlainDate(day) == [day |-> day, time |-> FALSE]

(* The category dropdown stores the CategoryID, shown here as text *)
CategoryIdOfDebtPayment == "15"

Rows == seq.Debts + seq.Accounts + seq.Payments + seq.Revenue + seq.Goals

-----------------------------------------------------------------------------
(* Bookkeeping of the run: the last operation, and for a recomputation     *)
(* pass how many times it has now run in a row                             *)

PassOps == {"GuiRefresh", "DbUpdateDebts", "DbUpdateGoals"}

(* Operations that leave Debts and Accounts recomputed from the ledger *)
SyncedOps == {"init", "gui", "GuiRefresh", "GuiSaveProgress", "DbUpdateDebts"}

Done(op) ==
    /\ lastOp' = op
    /\ reps' = IF op \in PassOps THEN (IF lastOp = op THEN 2 ELSE 1) ELSE 0

-----------------------------------------------------------------------------
(* _refresh_all_tabs: the GUI's recomputation pass on the tables as they    *)
(* stand after the handler's own write                                      *)

(* Variant: the handler returns without the pass *)
NotRefreshed(D, A, P, R) ==
    /\ Debts' = D
    /\ Accounts' = A
    /\ cache' = P

Refreshed(D, A, P, R) ==
    /\ Debts' = GuiRecalcDebts(D, P)
    /\ Accounts' = GuiRecalcAccounts(A, P, R)
    /\ cache' = P

(* Refresh Data button, and the pass run at start-up *)
GuiRefresh ==
    /\ Refreshed(Debts, Accounts, Payments, Revenue)
    /\ UNCHANGED <<Payments, Revenue, Goals, GoalLinks, seq, today, projections, order, pass, sim, orch, xl>>
    /\ Done("GuiRefresh")

(* _open_add_record_form.save_new_record, table Debts *)
GuiAddDebt ==
    /\ Rows < MaxRows
    /\ \E orig \in OriginalAmounts, mp \in MinimumPayments, st \in DebtStatuses :
         LET id == seq.Debts + 1
         IN /\ Refreshed(Insert(Debts, id, NewDebt(orig, mp, 0, st)), Accounts, Payments, Revenue)
            /\ seq' = [seq EXCEPT !.Debts = id]
    /\ UNCHANGED <<Payments, Revenue, Goals, GoalLinks, today, projections, order, pass, sim, orch, xl>>
    /\ Done("gui")

(* save_new_record, table Accounts *)
GuiAddAccount ==
    /\ Rows < MaxRows
    /\ \E start \in StartingBalances :
         LET id == seq.Accounts + 1
         IN /\ Refreshed(Debts, Insert(Accounts, id, NewAccount(start, "Checking", "Open")),
                         Payments, Revenue)
            /\ seq' = [seq EXCEPT !.Accounts = id]
    /\ UNCHANGED <<Payments, Revenue, Goals, GoalLinks, today, projections, order, pass, sim, orch, xl>>
    /\ Done("gui")

(* save_new_record, table Payments *)
GuiAddPayment ==
    /\ Rows < MaxRows
    /\ \E d \in DebtAccountOptions, a \in AccountOptions, amt \in PaymentAmounts :
         LET id == seq.Payments + 1
             P == Insert(Payments, id,
                         NewPayment(d, a, amt, FormDate(today), CategoryIdOfDebtPayment))
         IN /\ Payments' = P
            /\ Refreshed(Debts, Accounts, P, Revenue)
            /\ seq' = [seq EXCEPT !.Payments = id]
    /\ UNCHANGED <<Revenue, Goals, GoalLinks, today, projections, order, pass, sim, orch, xl>>
    /\ Done("gui")

(* save_new_record, table Revenue *)
GuiAddRevenue ==
    /\ Rows < MaxRows
    /\ \E amt \in RevenueAmounts, to \in DebtAccountOptions, pct \in Percentages,
          type \in {"Account", "Goal"} :
         LET id == seq.Revenue + 1
             R == Insert(Revenue, id, NewRevenue(amt, to, pct, type, today))
         IN /\ Revenue' = R
            /\ Refreshed(Debts, Accounts, Payments, R)
            /\ seq' = [seq EXCEPT !.Revenue = id]
    /\ UNCHANGED <<Payments, Goals, GoalLinks, today, projections, order, pass, sim, orch, xl>>
    /\ Done("gui")

(* _delete_selected_record, table Payments *)
GuiDeletePayment ==
    /\ \E p \in DOMAIN Payments :
         LET P == Delete(Payments, p)
         IN /\ Payments' = P
            /\ Refreshed(Debts, Accounts, P, Revenue)
    /\ UNCHANGED <<Revenue, Goals, GoalLinks, seq, today, projections, order, pass, sim, orch, xl>>
    /\ Done("gui")

(* _open_edit_record_form.save_edited_record, table Payments: the row is   *)
(* changed in the DataFrame the tab was last loaded with, and that          *)
(* DataFrame replaces the table                                             *)
GuiEditPayment ==
    /\ \E p \in DOMAIN cache, d \in DebtAccountOptions, amt \in PaymentAmounts :
         LET P == [cache EXCEPT ![p].DebtID = d, ![p].Amount = amt,
                                ![p].PaymentDate = FormDate(cache[p].PaymentDate.day)]
         IN /\ Payments' = P
            /\ Refreshed(Debts, Accounts, P, Revenue)
    /\ UNCHANGED <<Revenue, Goals, GoalLinks, seq, today, projections, order, pass, sim, orch, xl>>
    /\ Done("gui")

(* _update_goal_progress.save_progress *)
GuiSaveProgress ==
    /\ \E g \in DOMAIN Goals, change \in GoalChanges :
         LET amount == Max(0, Goals[g].CurrentAmount + change)
             status == IF amount >= Goals[g].TargetAmount THEN "Completed"
                       ELSE IF Goals[g].Status = "Completed" THEN "In Progress"
                       ELSE Goals[g].Status
         IN /\ amount <= MaxGoalAmount
            /\ Goals' = [Goals EXCEPT ![g].CurrentAmount = amount, ![g].Status = status]
    /\ Refreshed(Debts, Accounts, Payments, Revenue)
    /\ UNCHANGED <<Payments, Revenue, GoalLinks, seq, today, projections, order, pass, sim, orch, xl>>
    /\ Done("GuiSaveProgress")

-----------------------------------------------------------------------------
(* db_manager entry points: each is a call of its own *)

(* insert_record('Payments', data) *)
DbInsertPayment ==
    /\ Rows < MaxRows
    /\ \E d \in DebtAccountOptions, amt \in PaymentAmounts :
         LET id == seq.Payments + 1
         IN /\ Payments' = Insert(Payments, id,
                                  NewPayment(d, 0, amt, PlainDate(today), "Debt Payment"))
            /\ seq' = [seq EXCEPT !.Payments = id]
    /\ UNCHANGED <<Debts, Accounts, Revenue, Goals, GoalLinks, today, projections, order, pass, cache, sim, orch, xl>>
    /\ Done(IF lastOp \in SyncedOps THEN "DbInsert" ELSE "DbInsertMore")

(* add_goal(goal_data, linked_account_ids), as debt_manager_sample_data calls it *)
AddGoal ==
    /\ Rows < MaxRows
    /\ \E links \in SUBSET DOMAIN Accounts :
         LET id == seq.Goals + 1
         IN /\ Goals' = Insert(Goals, id, NewGoal(2, 0))
            /\ GoalLinks' = Insert(GoalLinks, id, links)
            /\ seq' = [seq EXCEPT !.Goals = id]
    /\ UNCHANGED <<Debts, Accounts, Payments, Revenue, today, projections, order, pass, cache, sim, orch, xl>>
    /\ Done("AddGoal")

(* update_debt_amounts_and_payments, which ends in update_account_balances *)
DbUpdateDebtAmountsAndPayments ==
    /\ Debts' = DbRecalcDebts(Debts, Payments)
    /\ Accounts' = DbRecalcAccounts(Accounts, Payments, Revenue)
    /\ UNCHANGED <<Payments, Revenue, Goals, GoalLinks, seq, today, projections, order, pass, cache, sim, orch, xl>>
    /\ Done("DbUpdateDebts")

(* update_goal_progress *)
DbUpdateGoalProgress ==
    /\ Goals' = DbRecalcGoals(Goals, Payments, today)
    /\ UNCHANGED <<Debts, Accounts, Payments, Revenue, GoalLinks, seq, today, projections, order, pass, cache, sim, orch, xl>>
    /\ Done("DbUpdateGoals")

Next ==
    \/ GuiRefresh
    \/ GuiAddDebt
    \/ GuiAddAccount
    \/ GuiAddPayment
    \/ GuiAddRevenue
    \/ GuiDeletePayment
    \/ GuiEditPayment
    \/ GuiSaveProgress
    \/ DbInsertPayment
    \/ AddGoal
    \/ DbUpdateDebtAmountsAndPayments
    \/ DbUpdateGoalProgress

Spec == Init /\ [][Next]_vars

-----------------------------------------------------------------------------
(* generate_financial_projection, GUI and db_manager.  Amounts are whole     *)
(* cents; the float arithmetic of the source is carried out in integers,    *)
(* each product divided (rounding down) as soon as it is formed.            *)

ProjectionMonths == 120
DefaultMonthlyIncome == 200000
DebtAllocationRate == 30
SavingsAllocationRate == 15
DaysPerYear == 365

(* cursor.execute("... WHERE Status NOT IN ('Paid Off', 'Closed')"): a NULL *)
(* Status fails NOT IN                                                      *)
ActiveSql(D) == {d \in DOMAIN D : D[d].Status \notin {"Paid Off", "Closed", "NULL"}}

(* debts_df[(Status != 'Paid Off') & (Status != 'Closed')]: None passes != *)
ActivePandas(D) == {d \in DOMAIN D : D[d].Status # "Paid Off" /\ D[d].Status # "Closed"}

TotalDebt(D) == SumAmount(D, ActiveSql(D))

TotalSavings(A) ==
    SumBalance(A, {a \in DOMAIN A :
                     /\ A[a].AccountType \in {"Savings", "Checking", "Investment"}
                     /\ A[a].Status \in {"Open", "Current", "Active"}})

AnnualIncome(R, day) ==
    SumAmount(R, {r \in DOMAIN R : R[r].DateReceived >= day - DaysPerYear})

RECURSIVE SumNextProjected(_, _)
SumNextProjected(R, S) ==
    IF S = {} THEN 0
    ELSE LET k == CHOOSE x \in S : TRUE
         IN R[k].NextProjectedIncome + SumNextProjected(R, S \ {k})

(* ORDER BY Amount ASC / sort_values(by='Amount'): the rows in ascending     *)
(* Amount; neither names a second key, so rows of equal Amount come in any  *)
(* order                                                                    *)
SortedByAmount(D, S) ==
    {o \in [1..Cardinality(S) -> S] :
        /\ \A i, j \in 1..Cardinality(S) : i # j => o[i] # o[j]
        /\ \A i, j \in 1..Cardinality(S) : i < j => D[o[i]].Amount <= D[o[j]].Amount}

(* --- GUI --- *)

GuiMonthlyIncome(R, day) ==
    LET annual == AnnualIncome(R, day)
        next == SumNextProjected(R, DOMAIN R)
    IN IF annual > 0 \/ next > 0 THEN (annual + next * 12) \div 12 ELSE DefaultMonthlyIncome

GuiAvailable(income) ==
    income - (income * (100 - DebtAllocationRate - SavingsAllocationRate)) \div 100

(* Variant: the whole allocation is paid whatever is still owed *)
GuiPaymentUncapped(debt, available, rate) == (available * rate) \div 100

GuiPayment(debt, available, rate) == Min(debt, (available * rate) \div 100)

GuiSnapshot(month, debt, savings) ==
    [Year |-> month \div 12,
     DebtRemaining |-> Max(0, debt),
     Savings |-> savings,
     NetWorth |-> savings - debt]

(* Variant: the payment is added to the debt *)
GuiMonthAdding(debt, savings, debtRate, savingsRate, available) ==
    <<debt + GuiPayment(debt, available, debtRate),
      ((savings + (available * savingsRate) \div 100) * 241) \div 240>>

(* One pass of the loop body: the debt and the savings after the month *)
GuiMonth(debt, savings, debtRate, savingsRate, available) ==
    <<debt - GuiPayment(debt, available, debtRate),
      ((savings + (available * savingsRate) \div 100) * 241) \div 240>>

(* The passes from `month` up to the next one with month % 12 == 0 *)
RECURSIVE GuiToYearEnd(_, _, _, _, _)
GuiToYearEnd(month, ds, debtRate, savingsRate, available) ==
    LET after == GuiMonth(ds[1], ds[2], debtRate, savingsRate, available)
    IN IF month % 12 = 0 THEN <<month, after[1], after[2]>>
       ELSE GuiToYearEnd(month + 1, after, debtRate, savingsRate, available)

(* The loop over the months, from `month` on *)
RECURSIVE GuiMonths(_, _, _, _, _, _)
GuiMonths(month, debt, savings, debtRate, savingsRate, available) ==
    IF month > ProjectionMonths THEN <<>>
    ELSE LET e == GuiToYearEnd(month, <<debt, savings>>, debtRate, savingsRate, available)
         IN <<GuiSnapshot(e[1], e[2], e[3])>> \o
            (IF e[2] <= 1
             THEN GuiMonths(e[1] + 1, 0, e[3], 0, savingsRate + debtRate, available)
             ELSE GuiMonths(e[1] + 1, e[2], e[3], debtRate, savingsRate, available))

GuiProjections(D, A, R, day) ==
    GuiMonths(1, TotalDebt(D), TotalSavings(A), DebtAllocationRate, SavingsAllocationRate,
              GuiAvailable(GuiMonthlyIncome(R, day)))

(* --- db_manager --- *)

ProjectionYears == <<3, 5, 7, 10>>

(* round(x, 2) of an amount held in hundredths of a cent *)
Round2(x) == (x + 50) \div 100

(* The loop over sorted_debts: what is left of total_debt *)
RECURSIVE DbPayDown(_, _, _, _, _, _)
DbPayDown(D, o, i, months, total, pool) ==
    IF i > Len(o) THEN total
    ELSE LET amount == D[o[i]].Amount
             minimum == D[o[i]].MinimumPayment
             paid == Min(amount, (minimum + pool) * months)
         IN DbPayDown(D, o, i + 1, months, total - paid,
                      IF paid >= amount /\ minimum > 0 THEN pool + minimum ELSE pool)

(* total_savings * (1 + 0.05) ** year, in hundredths of a cent *)
RECURSIVE Grow(_, _)
Grow(x, years) == IF years = 0 THEN x ELSE Grow((x * 105) \div 100, years - 1)

(* Variant: the remaining debt is reported as the loop leaves it *)
DbSnapshotUnclamped(D, A, R, day, o, year) ==
    LET remaining == DbPayDown(D, o, 1, year * 12, TotalDebt(D), 0)
        savings == Grow(TotalSavings(A) * 100, year) + (AnnualIncome(R, day) * 100 * year) \div 5
    IN [Year |-> year,
        DebtRemaining |-> Round2(remaining * 100),
        Savings |-> Round2(savings),
        NetWorth |-> Round2(savings - remaining * 100)]

DbSnapshot(D, A, R, day, o, year) ==
    LET remaining == Max(0, DbPayDown(D, o, 1, year * 12, TotalDebt(D), 0))
        savings == Grow(TotalSavings(A) * 100, year) + (AnnualIncome(R, day) * 100 * year) \div 5
    IN [Year |-> year,
        DebtRemaining |-> Round2(remaining * 100),
        Savings |-> Round2(savings),
        NetWorth |-> Round2(savings - remaining * 100)]

(* projections.append sits inside `for index, debt in current_debts.iterrows()`: *)
(* one snapshot of the year for every row of current_debts                  *)
RECURSIVE Repeat(_, _)
Repeat(x, n) == IF n = 0 THEN <<>> ELSE <<x>> \o Repeat(x, n - 1)

RECURSIVE DbYears(_, _, _, _, _, _)
DbYears(D, A, R, day, o, k) ==
    IF k > Len(ProjectionYears) THEN <<>>
    ELSE Repeat(DbSnapshot(D, A, R, day, o, ProjectionYears[k]), Cardinality(ActivePandas(D)))
         \o DbYears(D, A, R, day, o, k + 1)

DbProjections(D, A, R, day, o) == DbYears(D, A, R, day, o, 1)

(* --- the two entry points as operations on the database --- *)

GuiGenerateFinancialProjection ==
    /\ \E o \in SortedByAmount(Debts, ActiveSql(Debts)) : order' = o
    /\ projections' = GuiProjections(Debts, Accounts, Revenue, today)
    /\ UNCHANGED <<db, today, pass, cache, sim, orch, xl>>
    /\ Done("GuiProjection")

DbGenerateFinancialProjection ==
    /\ \E o \in SortedByAmount(Debts, ActivePandas(Debts)) :
         /\ order' = o
         /\ projections' = DbProjections(Debts, Accounts, Revenue, today, o)
    /\ UNCHANGED <<db, today, pass, cache, sim, orch, xl>>
    /\ Done("DbProjection")

(* A database as recomputation leaves it, for the projection to read *)

ProjOriginals == {100000, 400000}
ProjPaid == {0, 500000}
ProjMinimums == {0, 5000}
ProjStatuses == {"Open", "Closed", "NULL"}
ProjBalances == {50000}
ProjRevenues == {240000}
ProjRates == {12}

(* Originals of the debts that bear interest *)
ProjInterestOriginals == {100000}

(* Unpaid debts at 0% that are open or have no status, closed ones, open    *)
(* debts at 0% paid beyond their original amount, and open unpaid debts     *)
(* that bear interest                                                       *)
ProjDebtRows ==
    {NewDebt(orig, mp, 0, st) :
        orig \in ProjOriginals, mp \in ProjMinimums, st \in ProjStatuses \ {"Closed"}}
    \cup
    {NewDebt(orig, 0, 0, "Closed") : orig \in ProjOriginals}
    \cup
    {[OriginalAmount |-> orig, Amount |-> orig - paid, AmountPaid |-> paid,
      MinimumPayment |-> mp, InterestRate |-> 0, Status |-> "Open"] :
        orig \in ProjOriginals, paid \in ProjPaid \ {0}, mp \in ProjMinimums}
    \cup
    {NewDebt(orig, mp, rate, "Open") :
        orig \in ProjInterestOriginals, mp \in ProjMinimums, rate \in ProjRates}

ProjInit ==
    /\ \E n \in 0..MaxProjDebts : Debts \in [1..n -> ProjDebtRows]
    /\ \E b \in ProjBalances :
         Accounts = [a \in {1} |-> [NewAccount(b, "Savings", "Open") EXCEPT !.Balance = b]]
    /\ today = DaysPerYear + 2
    /\ \E n \in 0..1 : Revenue \in [1..n -> {NewRevenue(amt, 1, 100, "Account", day) :
                                              amt \in ProjRevenues, day \in {1, today}}]
    /\ Payments = Empty
    /\ Goals = Empty
    /\ GoalLinks = Empty
    /\ seq = [Debts |-> Cardinality(DOMAIN Debts), Accounts |-> 1, Payments |-> 0,
              Revenue |-> Cardinality(DOMAIN Revenue), Goals |-> 0]
    /\ projections = <<>>
    /\ order = <<>>
    /\ pass = Idle
    /\ cache = Empty
    /\ sim = NoSim
    /\ orch = NoOrch
    /\ xl = NoSync
    /\ lastOp = "init"
    /\ reps = 0

ProjNext ==
    \/ GuiGenerateFinancialProjection
    \/ DbGenerateFinancialProjection

ProjSpec == ProjInit /\ [][ProjNext]_vars

-----------------------------------------------------------------------------
(* Properties of the recomputation pass *)

(* Operations that end with a recomputation of Debts and Accounts *)
AfterPass == lastOp \in {"gui", "GuiRefresh", "GuiSaveProgress", "DbUpdateDebts"}

AllocatedTo(a) ==
    {r \in DOMAIN Revenue : Revenue[r].AllocatedTo = a /\ Revenue[r].AllocationType = "Account"}

PaidFrom(a) == {p \in DOMAIN Payments : Payments[p].AccountID = a}

LinkedTo(d) == {p \in DOMAIN Payments : Payments[p].DebtID = d}

(* C1: after a recomputation pass every account's Balance is                *)
(* StartingBalance + sum(Revenue.Amount x AllocationPercentage / 100 over   *)
(* the revenue allocated to it) - sum(Amount of the payments made from it). *)
(* Both sides are multiplied by 100 to stay in whole cents.                 *)
C1_BalanceFormula ==
    AfterPass =>
        \A a \in DOMAIN Accounts :
            100 * Accounts[a].Balance =
                100 * Accounts[a].StartingBalance
                + SumWeighted(Revenue, AllocatedTo(a))
                - 100 * SumAmount(Payments, PaidFrom(a))

(* C2: after a recomputation pass every debt's AmountPaid is the sum of the *)
(* payments linked to it and its Amount is max(0, OriginalAmount -          *)
(* AmountPaid).                                                            *)
C2_DebtFormula ==
    AfterPass =>
        \A d \in DOMAIN Debts :
            /\ Debts[d].AmountPaid = SumAmount(Payments, LinkedTo(d))
            /\ Debts[d].Amount = Max(0, Debts[d].OriginalAmount - Debts[d].AmountPaid)

(* C3: in every reachable state every debt's stored Amount is >= 0. *)
C3_AmountNonNegative == \A d \in DOMAIN Debts : Debts[d].Amount >= 0

(* C4: a recomputation pass run a second time in a row leaves every         *)
(* account's Balance, every debt's AmountPaid, Amount and Status and every  *)
(* goal's CurrentAmount as the first run left them.                        *)
Derived ==
    <<[a \in DOMAIN Accounts |-> Accounts[a].Balance],
      [d \in DOMAIN Debts |-> <<Debts[d].AmountPaid, Debts[d].Amount, Debts[d].Status>>],
      [g \in DOMAIN Goals |-> Goals[g].CurrentAmount]>>

NewestPayment == seq.Payments

C5_NoPayments ==
    AfterPass =>
        \A d \in DOMAIN Debts : LinkedTo(d) = {} => Debts[d].Amount = Debts[d].OriginalAmount

C5_GuiStep ==
    /\ lastOp \in SyncedOps
    /\ lastOp' = "gui"
    /\ seq'.Payments = seq.Payments + 1
    /\ Debts' # Debts

C5_DbStep ==
    /\ lastOp = "DbInsert"
    /\ lastOp' \in {"GuiRefresh", "DbUpdateDebts"}

C5_Decrease ==
    \A d \in DOMAIN Debts :
        LET p == Payments'[NewestPayment']
        IN (p.DebtID = d /\ p.Amount <= Debts[d].Amount)
               => Debts'[d].Amount = Debts[d].Amount - p.Amount

C5_Conservation ==
    /\ []C5_NoPayments
    /\ [][(C5_GuiStep \/ C5_DbStep) => C5_Decrease]_vars

(* A payment smaller than the debt has been inserted and the db_manager     *)
(* pass has run: the debt is part paid.                                    *)
C5_Witness ==
    /\ lastOp = "DbUpdateDebts"
    /\ \E d \in DOMAIN Debts :
         /\ Cardinality(LinkedTo(d)) = 1
         /\ Debts[d].Amount > 0
         /\ Debts[d].Amount < Debts[d].OriginalAmount

(* C6: after a recomputation pass a debt's Status is 'Paid Off' exactly     *)
(* when its remaining Amount is 0.                                         *)
C6_PaidOffIffZero ==
    AfterPass =>
        \A d \in DOMAIN Debts : (Debts[d].Status = "Paid Off") <=> (Debts[d].Amount = 0)

(* C7: after goal progress is recomputed every goal's CurrentAmount is the  *)
(* sum of the Balances of the accounts linked to it, 0 when none is.        *)
C7_GoalFormula ==
    lastOp \in {"DbUpdateGoals", "GuiSaveProgress"} =>
        \A g \in DOMAIN Goals :
            Goals[g].CurrentAmount = SumBalance(Accounts, GoalLinks[g] \cap DOMAIN Accounts)

-----------------------------------------------------------------------------
(* Properties of the projection *)

ProjOps == {"GuiProjection", "DbProjection"}

(* C8: the projection takes the active debts in ascending Amount, and debts  *)
(* of equal Amount in ascending DebtID, whatever the list of debts.         *)
C8_SnowballOrder ==
    lastOp \in ProjOps =>
        \A i, j \in 1..Len(order) :
            i < j => \/ Debts[order[i]].Amount < Debts[order[j]].Amount
                     \/ /\ Debts[order[i]].Amount = Debts[order[j]].Amount
                        /\ order[i] < order[j]

(* C9: a projection run returns one snapshot for each year 1..N of the      *)
(* horizon, each year once and in ascending order, however many debts are   *)
(* active.                                                                  *)
C9_OnePerYear ==
    lastOp \in ProjOps =>
        /\ Len(projections) = ProjectionMonths \div 12
        /\ \A i \in 1..Len(projections) : projections[i].Year = i

(* C10: in every snapshot the net worth is the projected savings minus the  *)
(* remaining debt clamped at 0, the value reported as DebtRemaining.        *)
C10_NetWorth ==
    lastOp \in ProjOps =>
        \A i \in 1..Len(projections) :
            /\ projections[i].DebtRemaining >= 0
            /\ projections[i].NetWorth = projections[i].Savings - projections[i].DebtRemaining

(* A GUI run in which the debt is still owed in one year and paid in a      *)
(* later one                                                                *)
C10_Witness ==
    /\ lastOp = "GuiProjection"
    /\ \E i, j \in 1..Len(projections) :
         /\ i < j
         /\ projections[i].DebtRemaining > 0
         /\ projections[j].DebtRemaining = 0
         /\ projections[j].Savings > 0

(* C11: no snapshot of a projection reports a negative DebtRemaining,       *)
(* whatever the stored debts, payments and horizon.                         *)
C11_DebtRemainingNonNegative ==
    lastOp \in ProjOps =>
        \A i \in 1..Len(projections) : projections[i].DebtRemaining >= 0

(* A db_manager run whose loop over the debts leaves less than nothing owed *)
C11_Witness ==
    /\ lastOp = "DbProjection"
    /\ Len(projections) > 0
    /\ \E k \in 1..Len(ProjectionYears) :
         DbPayDown(Debts, order, 1, ProjectionYears[k] * 12, TotalDebt(Debts), 0) < 0

DanglingPayments ==
    {p \in DOMAIN Payments :
        /\ Payments[p].DebtID \notin DOMAIN Debts
        /\ Payments[p].AccountID \notin DOMAIN Accounts
        /\ (Payments[p].DebtID # 0 \/ Payments[p].AccountID # 0)}

DanglingRevenue ==
    {r \in DOMAIN Revenue :
        /\ Revenue[r].AllocationType = "Account"
        /\ Revenue[r].AllocatedTo # 0
        /\ Revenue[r].AllocatedTo \notin DOMAIN Accounts}

Without(T, S) == [k \in DOMAIN T \ S |-> T[k]]

(* C13: a payment or revenue allocation that references a debt or account   *)
(* that does not exist contributes to no account's Balance and to no debt's *)
(* AmountPaid: the pass leaves what it leaves on the ledger without those   *)
(* records, for every existing account and debt.                            *)
C13_DanglingIgnored ==
    AfterPass =>
        LET P == Without(Payments, DanglingPayments)
            R == Without(Revenue, DanglingRevenue)
        IN /\ \A a \in DOMAIN Accounts :
                Accounts[a].Balance =
                    IF lastOp = "DbUpdateDebts"
                    THEN DbAccountRow(Accounts, P, R, a).Balance
                    ELSE GuiAccountRow(Accounts, P, R, a).Balance
           /\ \A d \in DOMAIN Debts :
                Debts[d].AmountPaid =
                    IF lastOp = "DbUpdateDebts"
                    THEN DbDebtRow(Debts, P, d).AmountPaid
                    ELSE GuiDebtRow(Debts, P, d).AmountPaid

-----------------------------------------------------------------------------
(* The GUI's recomputation pass next to another writer on the same database *)
(* file.  Each get_table_data and each update_table_data opens its own      *)
(* connection and is a transaction of its own, so the pass is six steps:    *)
(* four reads into DataFrames, then DELETE + insert of the whole Debts      *)
(* DataFrame, then of the whole Accounts DataFrame.                         *)

PassRead(pc, next, field, table) ==
    /\ pass.pc = pc
    /\ pass' = [pass EXCEPT !.pc = next, ![field] = table]
    /\ UNCHANGED <<db, today, projections, order, lastOp, reps, cache, sim, orch, xl>>

PassReadDebts == PassRead("idle", "payments", "D", Debts)

PassReadPayments == PassRead("payments", "accounts", "P", Payments)

PassReadAccounts == PassRead("accounts", "revenue", "A", Accounts)

PassReadRevenue == PassRead("revenue", "writeDebts", "R", Revenue)

(* `if not debts_df.empty:` ... update_table_data('Debts', debts_df) *)
PassWriteDebts ==
    /\ pass.pc = "writeDebts"
    /\ Debts' = IF DOMAIN pass.D = {} THEN Debts ELSE GuiRecalcDebts(pass.D, pass.P)
    /\ pass' = [pass EXCEPT !.pc = "writeAccounts"]
    /\ UNCHANGED <<Accounts, Payments, Revenue, Goals, GoalLinks, seq,
                   today, projections, order, lastOp, reps, cache, sim, orch, xl>>

(* `if not accounts_df.empty:` ... update_table_data('Accounts', accounts_df) *)
PassWriteAccounts ==
    /\ pass.pc = "writeAccounts"
    /\ Accounts' = IF DOMAIN pass.A = {} THEN Accounts
                   ELSE GuiRecalcAccounts(pass.A, pass.P, pass.R)
    /\ pass' = Idle
    /\ UNCHANGED <<Debts, Payments, Revenue, Goals, GoalLinks, seq,
                   today, projections, order, lastOp, reps, cache, sim, orch, xl>>

(* The other writer: insert_record, one INSERT committed on its own *)
InsertDebt ==
    /\ Rows < MaxRows
    /\ \E orig \in OriginalAmounts, mp \in MinimumPayments :
         LET id == seq.Debts + 1
         IN /\ Debts' = Insert(Debts, id, NewDebt(orig, mp, 0, "Open"))
            /\ seq' = [seq EXCEPT !.Debts = id]
    /\ UNCHANGED <<Accounts, Payments, Revenue, Goals, GoalLinks,
                   today, projections, order, lastOp, reps, pass, cache, sim, orch, xl>>

InsertAccount ==
    /\ Rows < MaxRows
    /\ \E start \in StartingBalances :
         LET id == seq.Accounts + 1
         IN /\ Accounts' = Insert(Accounts, id, NewAccount(start, "Checking", "Open"))
            /\ seq' = [seq EXCEPT !.Accounts = id]
    /\ UNCHANGED <<Debts, Payments, Revenue, Goals, GoalLinks,
                   today, projections, order, lastOp, reps, pass, cache, sim, orch, xl>>

InsertPayment ==
    /\ Rows < MaxRows
    /\ \E d \in DOMAIN Debts, a \in AccountOptions, amt \in PaymentAmounts :
         LET id == seq.Payments + 1
         IN /\ Payments' = Insert(Payments, id,
                                  NewPayment(d, a, amt, PlainDate(today), "Debt Payment"))
            /\ seq' = [seq EXCEPT !.Payments = id]
    /\ UNCHANGED <<Debts, Accounts, Revenue, Goals, GoalLinks,
                   today, projections, order, lastOp, reps, pass, cache, sim, orch, xl>>

ConcNext ==
    \/ PassReadDebts
    \/ PassReadPayments
    \/ PassReadAccounts
    \/ PassReadRevenue
    \/ PassWriteDebts
    \/ PassWriteAccounts
    \/ InsertDebt
    \/ InsertAccount
    \/ InsertPayment

ConcSpec == Init /\ [][ConcNext]_vars

(* C14: a record that another writer inserts while a recomputation pass is  *)
(* between its reads and its writes is not lost: every debt and account     *)
(* ever inserted is still in its table (nothing here deletes one).          *)
C14_NoRecordLost ==
    /\ DOMAIN Debts = 1..seq.Debts
    /\ DOMAIN Accounts = 1..seq.Accounts

-----------------------------------------------------------------------------
(* Properties of the handlers *)

C16_AppendOnly ==
    [][\A p \in DOMAIN Payments : p \in DOMAIN Payments' /\ Payments'[p] = Payments[p]]_vars

-----------------------------------------------------------------------------
(* The projections run pass by pass of their loops: one step of the GUI is  *)
(* one pass of `for month in range(1, projection_months + 1)`, one step of  *)
(* db_manager is one pass of `for index, debt in current_debts.iterrows()`  *)
(* or the move to the next of `for year in years`.                          *)

(* Variant: the loop runs until the debt is paid *)
GuiLoopUntilPaid(month, debt) == debt > 1

(* range(1, projection_months + 1) has another month *)
GuiLoopContinues(month, debt) == month < ProjectionMonths

SimStartGui ==
    /\ sim.pc = "idle"
    /\ \E o \in SortedByAmount(Debts, ActiveSql(Debts)) : order' = o
    /\ sim' = [NoSim EXCEPT !.pc = "gui",
                            !.debt = TotalDebt(Debts),
                            !.savings = TotalSavings(Accounts),
                            !.debtRate = DebtAllocationRate,
                            !.savingsRate = SavingsAllocationRate,
                            !.available = GuiAvailable(GuiMonthlyIncome(Revenue, today))]
    /\ UNCHANGED <<db, today, projections, lastOp, reps, pass, cache, orch, xl>>

SimGuiMonth ==
    /\ sim.pc = "gui"
    /\ GuiLoopContinues(sim.month, sim.debt)
    /\ LET month == sim.month + 1
           after == GuiMonth(sim.debt, sim.savings, sim.debtRate, sim.savingsRate,
                             sim.available)
           yearEnd == month % 12 = 0
           paid == yearEnd /\ after[1] <= 1
       IN sim' = [sim EXCEPT
                    !.month = month,
                    !.debt = IF paid THEN 0 ELSE after[1],
                    !.savings = after[2],
                    !.debtRate = IF paid THEN 0 ELSE sim.debtRate,
                    !.savingsRate = IF paid THEN sim.savingsRate + sim.debtRate
                                    ELSE sim.savingsRate,
                    !.out = IF yearEnd
                            THEN Append(sim.out, GuiSnapshot(month, after[1], after[2]))
                            ELSE sim.out]
    /\ UNCHANGED <<db, today, projections, order, lastOp, reps, pass, cache, orch, xl>>

SimGuiReturn ==
    /\ sim.pc = "gui"
    /\ ~GuiLoopContinues(sim.month, sim.debt)
    /\ projections' = sim.out
    /\ sim' = [sim EXCEPT !.pc = "done"]
    /\ UNCHANGED <<db, today, order, pass, cache, orch, xl>>
    /\ Done("GuiProjection")

SimStartDb ==
    /\ sim.pc = "idle"
    /\ \E o \in SortedByAmount(Debts, ActivePandas(Debts)) : order' = o
    /\ sim' = [NoSim EXCEPT !.pc = "db", !.k = 1]
    /\ UNCHANGED <<db, today, projections, lastOp, reps, pass, cache, orch, xl>>

SimDbPass ==
    /\ sim.pc = "db"
    /\ sim.k <= Len(ProjectionYears)
    /\ sim' = IF sim.i < Cardinality(ActivePandas(Debts))
              THEN [sim EXCEPT
                      !.i = sim.i + 1,
                      !.out = Append(sim.out, DbSnapshot(Debts, Accounts, Revenue, today,
                                                         order, ProjectionYears[sim.k]))]
              ELSE [sim EXCEPT !.k = sim.k + 1, !.i = 0]
    /\ UNCHANGED <<db, today, projections, order, lastOp, reps, pass, cache, orch, xl>>

SimDbReturn ==
    /\ sim.pc = "db"
    /\ sim.k > Len(ProjectionYears)
    /\ projections' = sim.out
    /\ sim' = [sim EXCEPT !.pc = "done"]
    /\ UNCHANGED <<db, today, order, pass, cache, orch, xl>>
    /\ Done("DbProjection")

(* The loops, which run on once the function has been called *)
SimStep ==
    \/ SimGuiMonth
    \/ SimGuiReturn
    \/ SimDbPass
    \/ SimDbReturn

SimNext ==
    \/ SimStartGui
    \/ SimStartDb
    \/ SimStep

(* Debts that are open and unpaid, with and without a minimum payment *)
SimDebtRows ==
    {r \in ProjDebtRows : r.Status = "Open" /\ r.AmountPaid = 0 /\ r.InterestRate = 0}

SimInit ==
    /\ ProjInit
    /\ \A d \in DOMAIN Debts : Debts[d] \in SimDebtRows

SimSpec == SimInit /\ [][SimNext]_vars

SimFairSpec == SimSpec /\ WF_vars(SimStep)

(* C17: every projection run terminates, after at most years x 12 simulated *)
(* months, also when the payments never cover the debts and when there are  *)
(* no debts.                                                                *)
C17_Terminates ==
    /\ [](sim.month <= ProjectionMonths)
    /\ (sim.pc \in {"gui", "db"}) ~> (sim.pc = "done")

(* A GUI run that has returned with debt left after the last year *)
C17_Witness ==
    /\ sim.pc = "done"
    /\ lastOp = "GuiProjection"
    /\ sim.month = ProjectionMonths
    /\ projections[Len(projections)].DebtRemaining > 0

-----------------------------------------------------------------------------
(* debt_manager_orchestrator.main: the four run_python_script calls inside  *)
(* one try block.  orch.pc is the step about to run or running, one past    *)
(* the last when all have run                                               *)

ExitCodes == {0, 1, 2}

(* Variant: the failure is logged and main goes on with the next step *)
OrchCarryOn(o) == [o EXCEPT !.pc = o.pc + 1]

(* run_python_script raises, main's except clause ends the run *)
OrchOnFailure(o) == [o EXCEPT !.failed = TRUE]

OrchFrame ==
    UNCHANGED <<db, today, projections, order, lastOp, reps, pass, cache, sim, xl>>

(* `if not os.path.exists(script_path): raise FileNotFoundError` *)
OrchScriptMissing ==
    /\ orch.pc \in 1..Len(Scripts)
    /\ ~orch.failed
    /\ ~orch.running
    /\ ~orch.exists[orch.pc]
    /\ orch' = OrchOnFailure(orch)
    /\ OrchFrame

(* subprocess.run(['python', script_path], check=True, ...) is entered *)
OrchStart ==
    /\ orch.pc \in 1..Len(Scripts)
    /\ ~orch.failed
    /\ ~orch.running
    /\ orch.exists[orch.pc]
    /\ orch' = [orch EXCEPT !.running = TRUE, !.started = Append(orch.started, orch.pc)]
    /\ OrchFrame

(* the script exits: check=True raises CalledProcessError on a non-zero     *)
(* code; what it wrote to stderr is logged and changes nothing              *)
OrchExit ==
    /\ orch.pc \in 1..Len(Scripts)
    /\ ~orch.failed
    /\ orch.running
    /\ \E code \in ExitCodes, err \in BOOLEAN :
         LET exited == [orch EXCEPT !.running = FALSE,
                                    !.exits = Append(orch.exits, code),
                                    !.stderr = Append(orch.stderr, err)]
         IN orch' = IF code = 0 THEN [exited EXCEPT !.pc = orch.pc + 1]
                    ELSE OrchOnFailure(exited)
    /\ OrchFrame

OrchNext ==
    \/ OrchScriptMissing
    \/ OrchStart
    \/ OrchExit

(* The scripts found in BASE_DIR differ from one installation to another *)
OrchInit ==
    /\ Debts = Empty
    /\ Accounts = Empty
    /\ Payments = Empty
    /\ Revenue = Empty
    /\ Goals = Empty
    /\ GoalLinks = Empty
    /\ seq = [Debts |-> 0, Accounts |-> 0, Payments |-> 0, Revenue |-> 0, Goals |-> 0]
    /\ today = 1
    /\ projections = <<>>
    /\ order = <<>>
    /\ pass = Idle
    /\ cache = Empty
    /\ sim = NoSim
    /\ lastOp = "init"
    /\ reps = 0
    /\ \E e \in [1..Len(Scripts) -> BOOLEAN] : orch = [NoOrch EXCEPT !.exists = e]
    /\ xl = NoSync

OrchSpec == OrchInit /\ [][OrchNext]_vars

-----------------------------------------------------------------------------
(* Properties of the payoff arithmetic *)

(* The same debts at 0% *)
ZeroRate(D) == [d \in DOMAIN D |-> [D[d] EXCEPT !.InterestRate = 0]]

ProjectionsOf(D) ==
    IF lastOp = "GuiProjection" THEN GuiProjections(D, Accounts, Revenue, today)
    ELSE DbProjections(D, Accounts, Revenue, today, order)

(* C19: the debt at the head of the list accrues a month's interest before  *)
(* its payment is subtracted, so a single open debt with a non-zero         *)
(* InterestRate has, in every year in which the same debt at 0% is still    *)
(* owed, a larger projected remaining debt than at 0%.                      *)
C19_InterestAccrues ==
    (/\ lastOp \in ProjOps
     /\ DOMAIN Debts = {1}
     /\ Debts[1].Status = "Open"
     /\ Debts[1].Amount > 0
     /\ Debts[1].InterestRate > 0)
    => \A i \in 1..Len(projections) :
          ProjectionsOf(ZeroRate(Debts))[i].DebtRemaining > 0
          => projections[i].DebtRemaining > ProjectionsOf(ZeroRate(Debts))[i].DebtRemaining

AllOpenAtZeroRate ==
    \A d \in DOMAIN Debts :
        Debts[d].Status = "Open" /\ Debts[d].Amount > 0 /\ Debts[d].InterestRate = 0

(* C20: the MinimumPayment of a paid-off debt joins the snowball pool only  *)
(* for the months after the month of its payoff.  At 0% the payments of a   *)
(* month are then never more than the sum of the minimum payments, so after *)
(* m months no more than m times that sum has been paid off.                *)
C20_PoolAfterPayoff ==
    (lastOp = "DbProjection" /\ AllOpenAtZeroRate)
    => \A i \in 1..Len(projections) :
          projections[i].DebtRemaining >=
              TotalDebt(Debts) - 12 * projections[i].Year * SumMinimum(Debts, DOMAIN Debts)

(* The loop over sorted_debts: the sum of amount_paid_on_this_debt *)
RECURSIVE DbPaidTotal(_, _, _, _, _)
DbPaidTotal(D, o, i, months, pool) ==
    IF i > Len(o) THEN 0
    ELSE LET amount == D[o[i]].Amount
             minimum == D[o[i]].MinimumPayment
             paid == Min(amount, (minimum + pool) * months)
         IN paid + DbPaidTotal(D, o, i + 1, months,
                               IF paid >= amount /\ minimum > 0 THEN pool + minimum ELSE pool)

(* C21: the snowball pool goes to one debt a month and every other debt is  *)
(* paid its own MinimumPayment, so over the m months of a horizon the       *)
(* payments applied to all the debts of the list together are at most m     *)
(* times the sum of their minimum payments.                                 *)
C21_PoolToOneDebt ==
    lastOp = "DbProjection"
    => \A k \in 1..Len(ProjectionYears) :
          DbPaidTotal(Debts, order, 1, ProjectionYears[k] * 12, 0)
              <= ProjectionYears[k] * 12 * SumMinimum(Debts, ActivePandas(Debts))

-----------------------------------------------------------------------------
(* Properties of the loops, pass by pass *)

(* C22: each simulated month takes the savings to savings x (1 + monthly    *)
(* growth rate) + monthly contribution, the growth applied to the balance   *)
(* of the month before and the contribution added after it, and the         *)
(* snapshot of a year reports the savings after its twelfth month.          *)
C22_SavingsRecurrence ==
    [][(sim.pc = "gui" /\ sim.month' = sim.month + 1)
         => /\ sim.savings' = (sim.savings * 241) \div 240
                                  + (sim.available * sim.savingsRate) \div 100
            /\ sim.month' % 12 = 0
                 => sim.out'[Len(sim.out')].Savings = sim.savings']_vars

(* A horizon, in years, in which the minimum payments of the debts below    *)
(* add up to more than all the debts together                               *)
LongHorizonYears == 100

(* C23: when the minimum payments of the debts together exceed the interest *)
(* of a month (here: debts at 0% with some minimum payment), a long enough  *)
(* horizon ends with nothing owed.                                          *)
C23_EventuallyPaid ==
    (/\ lastOp = "DbProjection"
     /\ AllOpenAtZeroRate
     /\ SumMinimum(Debts, DOMAIN Debts) > 0
     /\ SumMinimum(Debts, DOMAIN Debts) * LongHorizonYears > TotalDebt(Debts))
    => Max(0, DbPayDown(Debts, order, 1, LongHorizonYears * 12, TotalDebt(Debts), 0)) = 0

-----------------------------------------------------------------------------
(* Properties of the stored rows over a run *)

(* C24: from one recomputation pass to the next, whatever the operation on  *)
(* the ledger in between, no debt's stored remaining Amount goes up.        *)
C24_AmountNeverIncreases ==
    [][(AfterPass /\ AfterPass')
         => \A d \in DOMAIN Debts \cap DOMAIN Debts' :
               Debts'[d].Amount <= Debts[d].Amount]_vars

(* C25: no operation adjusts a goal's CurrentAmount from the value stored   *)
(* before: whenever an operation changes it, the value written is the       *)
(* recomputation from the sources (the balances of the linked accounts, or  *)
(* the sum the progress pass takes from the ledger).                        *)
C25_NeverIncremental ==
    [][\A g \in DOMAIN Goals \cap DOMAIN Goals' :
          Goals'[g].CurrentAmount # Goals[g].CurrentAmount
          => Goals'[g].CurrentAmount \in
                {SumBalance(Accounts', GoalLinks'[g] \cap DOMAIN Accounts'),
                 DbGoalProgress(Payments', today')}]_vars

-----------------------------------------------------------------------------
(* Properties of a projection run as a whole *)

(* C26: within one projection run the DebtRemaining of a snapshot is never  *)
(* more than that of an earlier one, and after a snapshot with nothing owed *)
(* every later snapshot has nothing owed.                                   *)
C26_DebtNeverReappears ==
    lastOp \in ProjOps =>
        \A i, j \in 1..Len(projections) :
            i < j => /\ projections[j].DebtRemaining <= projections[i].DebtRemaining
                     /\ projections[i].DebtRemaining = 0 => projections[j].DebtRemaining = 0

(* A db_manager run whose debt is still owed at one horizon and paid at two *)
(* later ones                                                               *)
C26_Witness ==
    /\ lastOp = "DbProjection"
    /\ \E i, j, k \in 1..Len(projections) :
         /\ projections[i].Year < projections[j].Year
         /\ projections[j].Year < projections[k].Year
         /\ projections[i].DebtRemaining > 0
         /\ projections[j].DebtRemaining = 0
         /\ projections[k].DebtRemaining = 0

-----------------------------------------------------------------------------
(* The two recomputation passes side by side *)

(* C27: run on the same ledger, the GUI's pass and db_manager's pass give   *)
(* every debt the same AmountPaid and remaining Amount and every account    *)
(* the same Balance.                                                        *)
C27_OneFormula ==
    /\ \A d \in DOMAIN Debts :
          /\ GuiRecalcDebts(Debts, Payments)[d].AmountPaid
                = DbRecalcDebts(Debts, Payments)[d].AmountPaid
          /\ GuiRecalcDebts(Debts, Payments)[d].Amount
                = DbRecalcDebts(Debts, Payments)[d].Amount
    /\ \A a \in DOMAIN Accounts :
          GuiRecalcAccounts(Accounts, Payments, Revenue)[a].Balance
             = DbRecalcAccounts(Accounts, Payments, Revenue)[a].Balance

-----------------------------------------------------------------------------
(* debt_manager_excel_sync.sync_data, step by step, and its caller in the   *)
(* GUI, _trigger_excel_sync.  xl.book is the workbook on disk, one sheet    *)
(* per table; xl.sqlite and xl.excel are the DataFrames loaded from the     *)
(* database and from the workbook; xl.before keeps the tables and the       *)
(* workbook as they were when sync_data was called.                         *)

(* TABLE_SCHEMAS.keys(), the tables of this model in the order of config.py *)
SyncTables == <<"Debts", "Accounts", "Payments", "Goals", "Revenue">>

DbTables ==
    [Debts |-> Debts, Accounts |-> Accounts, Payments |-> Payments,
     Goals |-> Goals, Revenue |-> Revenue]

(* no workbook at EXCEL_PATH: logged, return False *)
SyncProceed(x) ==
    IF x.exists THEN [x EXCEPT !.pc = "load"]
    ELSE [x EXCEPT !.pc = "done", !.result = "False"]

(* Variant: the warning is logged and the sync goes on *)
SyncOnOpenProceeds(x) == SyncProceed(x)

(* 'Excel file is open, skipping sync to prevent data corruption.' *)
SyncOnOpen(x) == [x EXCEPT !.pc = "done", !.result = "False"]

(* A sheet's rows as excel_to_sqlite writes them: text in a date column is  *)
(* parsed and stored as '%Y-%m-%d %H:%M:%S'                                 *)
FromSheet(name, T) ==
    IF name = "Payments"
    THEN [p \in DOMAIN T |-> [T[p] EXCEPT !.PaymentDate = FormDate(T[p].PaymentDate.day)]]
    ELSE T

MaxKey(S) == IF S = {} THEN 0 ELSE CHOOSE m \in S : \A x \in S : x <= m

(* DELETE FROM table, then to_sql(..., if_exists='append') of the sheet *)
SyncedTable(name, current) ==
    IF SyncTables[xl.k] = name THEN FromSheet(name, xl.excel[name]) ELSE current

SyncFrame == UNCHANGED <<GoalLinks, today, projections, order, pass, sim, orch>>

(* sync_data(direction) is called, by the GUI's menu or by another caller *)
SyncCall ==
    /\ xl.pc = "idle"
    /\ \E dir \in {"sqlite_to_excel", "excel_to_sqlite"}, g \in BOOLEAN :
         xl' = [xl EXCEPT !.pc = "check", !.direction = dir, !.gui = g, !.probe = "none",
                          !.result = "none", !.k = 0, !.before = <<DbTables, xl.book>>]
    /\ UNCHANGED <<db, cache, lastOp, reps>>
    /\ SyncFrame

(* The xlwings probe: the workbook is found among the open books, or it is  *)
(* not, or xlwings raises and the sync proceeds                             *)
SyncCheck ==
    /\ xl.pc = "check"
    /\ \E probe \in (IF xl.open THEN {"seen"} ELSE {}) \cup {"unseen", "error"} :
         xl' = IF probe = "seen" THEN SyncOnOpen([xl EXCEPT !.probe = probe])
               ELSE SyncProceed([xl EXCEPT !.probe = probe])
    /\ UNCHANGED <<db, cache, lastOp, reps>>
    /\ SyncFrame

(* Both sides are loaded; a workbook that cannot be read ends the call *)
SyncLoad ==
    /\ xl.pc = "load"
    /\ \E loaded \in BOOLEAN :
         xl' = IF loaded
               THEN [xl EXCEPT !.pc = "write", !.sqlite = DbTables, !.excel = xl.book, !.k = 1]
               ELSE [xl EXCEPT !.pc = "done", !.result = "False"]
    /\ UNCHANGED <<db, cache, lastOp, reps>>
    /\ SyncFrame

(* sqlite_to_excel: every sheet is refilled in memory and the workbook is   *)
(* saved once; the function then ends without a return value                *)
SyncWriteSheets ==
    /\ xl.pc = "write"
    /\ xl.direction = "sqlite_to_excel"
    /\ \E saved \in BOOLEAN :
         xl' = IF saved
               THEN [xl EXCEPT !.pc = "done", !.result = "None", !.book = xl.sqlite]
               ELSE [xl EXCEPT !.pc = "done", !.result = "False"]
    /\ UNCHANGED <<db, cache, lastOp, reps>>
    /\ SyncFrame

(* excel_to_sqlite: one pass of the loop over the sheets *)
SyncWriteTable ==
    /\ xl.pc = "write"
    /\ xl.direction = "excel_to_sqlite"
    /\ xl.k <= Len(SyncTables)
    /\ \E written \in BOOLEAN :
         IF written
         THEN /\ Debts' = SyncedTable("Debts", Debts)
              /\ Accounts' = SyncedTable("Accounts", Accounts)
              /\ Payments' = SyncedTable("Payments", Payments)
              /\ Goals' = SyncedTable("Goals", Goals)
              /\ Revenue' = SyncedTable("Revenue", Revenue)
              /\ seq' = [seq EXCEPT ![SyncTables[xl.k]] =
                                       Max(@, MaxKey(DOMAIN xl.excel[SyncTables[xl.k]]))]
              /\ xl' = [xl EXCEPT !.k = xl.k + 1]
         ELSE /\ UNCHANGED <<Debts, Accounts, Payments, Goals, Revenue, seq>>
              /\ xl' = [xl EXCEPT !.pc = "done", !.result = "False"]
    /\ UNCHANGED <<cache, lastOp, reps>>
    /\ SyncFrame

(* conn.commit() after the last sheet; no return value *)
SyncCommit ==
    /\ xl.pc = "write"
    /\ xl.direction = "excel_to_sqlite"
    /\ xl.k > Len(SyncTables)
    /\ xl' = [xl EXCEPT !.pc = "done", !.result = "None"]
    /\ UNCHANGED <<db, cache, lastOp, reps>>
    /\ SyncFrame

(* sync_data has returned.  _trigger_excel_sync does not look at the result: *)
(* it reports "Sync Complete" and calls _refresh_all_tabs                    *)
SyncReturn ==
    /\ xl.pc = "done"
    /\ xl' = [xl EXCEPT !.pc = "idle"]
    /\ IF xl.gui
       THEN /\ Refreshed(Debts, Accounts, Payments, Revenue)
            /\ Done("gui")
       ELSE UNCHANGED <<Debts, Accounts, cache, lastOp, reps>>
    /\ UNCHANGED <<Payments, Revenue, Goals, seq>>
    /\ SyncFrame

(* The user opens or closes the workbook in Excel *)
UserTogglesWorkbook ==
    /\ xl' = [xl EXCEPT !.open = ~xl.open]
    /\ UNCHANGED <<db, cache, lastOp, reps>>
    /\ SyncFrame

SyncNext ==
    \/ SyncCall
    \/ SyncCheck
    \/ SyncLoad
    \/ SyncWriteSheets
    \/ SyncWriteTable
    \/ SyncCommit
    \/ SyncReturn
    \/ UserTogglesWorkbook

(* A database and a workbook that hold different rows *)
SyncInit ==
    /\ Debts \in {Empty, [d \in {1} |-> NewDebt(3, 1, 0, "Open")]}
    /\ Payments \in {Empty, [p \in {1} |-> NewPayment(1, 0, 1, PlainDate(1), "Debt Payment")]}
    /\ Accounts = Empty
    /\ Revenue = Empty
    /\ Goals = Empty
    /\ GoalLinks = Empty
    /\ seq = [Debts |-> Cardinality(DOMAIN Debts), Accounts |-> 0,
              Payments |-> Cardinality(DOMAIN Payments), Revenue |-> 0, Goals |-> 0]
    /\ today = 1
    /\ projections = <<>>
    /\ order = <<>>
    /\ pass = Idle
    /\ cache = Payments
    /\ sim = NoSim
    /\ orch = NoOrch
    /\ lastOp = "init"
    /\ reps = 0
    /\ \E sheetD \in {Empty, [d \in {1} |-> NewDebt(1, 1, 0, "Open")]},
          sheetP \in {Empty, [p \in {1, 2} |-> NewPayment(1, 0, 2, PlainDate(1), "Debt Payment")]},
          found \in BOOLEAN :
         xl = [NoSync EXCEPT !.exists = found,
                             !.book = [NoBook EXCEPT !.Debts = sheetD, !.Payments = sheetP]]

SyncSpec == SyncInit /\ [][SyncNext]_vars

-----------------------------------------------------------------------------
(* The Status of a debt: the forms and db_manager.update_record set it, the *)
(* GUI's pass rewrites it                                                   *)

(* update_record('Debts', d, {'Status': st}) *)
DbUpdateDebtStatus ==
    /\ \E d \in DOMAIN Debts, st \in DebtStatuses :
         Debts' = [Debts EXCEPT ![d].Status = st]
    /\ UNCHANGED <<Accounts, Payments, Revenue, Goals, GoalLinks, seq, today, projections,
                   order, pass, cache, sim, orch, xl>>
    /\ Done("DbUpdateRecord")

StatusNext ==
    \/ GuiAddDebt
    \/ GuiAddPayment
    \/ DbInsertPayment
    \/ DbUpdateDebtStatus
    \/ GuiRefresh
    \/ DbUpdateDebtAmountsAndPayments

StatusSpec == Init /\ [][StatusNext]_vars

(* C29: no operation, the recomputation passes included, takes a debt with  *)
(* money still owed out of the Status 'Closed' or 'Defaulted' unless the    *)
(* Status is set by hand; a 'Closed' debt therefore stays out of the debts  *)
(* the projection totals and pays down.                                     *)
C29_ClosedStaysClosed ==
    [][lastOp' # "DbUpdateRecord"
         => \A d \in DOMAIN Debts \cap DOMAIN Debts' :
               (Debts[d].Status \in {"Closed", "Defaulted"} /\ Debts'[d].Amount > 0)
               => /\ Debts'[d].Status = Debts[d].Status
                  /\ Debts[d].Status = "Closed"
                       => d \notin ActiveSql(Debts') \cup ActivePandas(Debts')]_vars

-----------------------------------------------------------------------------
(* The debts of db_manager's projection *)

(* C30: db_manager's projection pays down exactly the debts it has summed   *)
(* into total_debt, a debt with no Status included, so for no horizon do    *)
(* the payments subtracted exceed the total they are subtracted from.       *)
C30_SameDebtsSummedAndPaid ==
    lastOp = "DbProjection"
    => /\ \A d \in DOMAIN Debts : d \in ActivePandas(Debts) <=> d \in ActiveSql(Debts)
       /\ \A k \in 1..Len(ProjectionYears) :
             DbPaidTotal(Debts, order, 1, ProjectionYears[k] * 12, 0) <= TotalDebt(Debts)

=============================================================================
